---- MODULE Spec2Model ----
(***************************************************************************)
(* Adjuface: the entitlement ledger of one user (requests_left,            *)
(* targets_left, premium purchases), the custom-target flag and the        *)
(* image-request pipeline of the Telegram bot, as implemented in           *)
(* src/src/bot/database and src/src/bot/handlers.                          *)
(*                                                                         *)
(* Every database function of the bot opens its own AsyncSession, selects  *)
(* the user row, changes attributes of the loaded object and commits.  The *)
(* select and the commit are separate awaits; the unit of work writes the  *)
(* attributes whose value differs from the loaded one.  The two decrement  *)
(* functions are modelled with both steps (Read, Commit); the other        *)
(* functions are modelled as one step each.                                *)
(***************************************************************************)
EXTENDS Integers, Sequences, FiniteSets, TLC

\* ---------------------------------------------------------------- bounds
\* Number of outputs the FaceSwap service may return for one photo.
MaxK == 3
\* Number of PremiumPurchase rows the model lets a user accumulate.
MaxPurchases == 2
\* Last day of the model's calendar (days are counted from 0).
MaxDay == 1
\* Number of times the model's clock is advanced.
MaxTicks == 1
\* Number of commands and scheduled jobs (/target, menu selection,
\* /reset_user, payment, update_user_quotas) the model runs.
MaxCommands == 1
\* Largest argument n of a direct decrement call in SpecLedger.
MaxN == 5
\* Largest initial balance in SpecLedger.
MaxBalance == 3
\* Number of PremiumPurchase rows a user starts with in SpecQuota.
MaxRecords == 2
\* Largest request_increment of a PremiumPurchase row in SpecQuota.
MaxGrant == 2
\* Number of runs of update_user_quotas in SpecReconcile.
MaxRuns == 2
\* Longest name passed to insert_user in SpecUsers.
MaxNameLen == 2

\* ------------------------------------------------- configuration values
\* config.yaml is not part of the sources; the configured values are
\* scaled down, PREMIUM_REQUESTS and PREMIUM_TARGETS kept different.
FREE_REQUESTS == 2
PREMIUM_REQUESTS == 3
PREMIUM_TARGETS == 1
PREMIUM_DAYS == 1
DELAY_BETWEEN_IMAGES == 2
\* check_time_limit(user, message, n_time=20)
n_time == 20
\* the interval of log_scheduler_run, in the units of the model's clock
HOUR_INTERVAL == 20
\* User.mode default (mode = Column(Integer, default=1)), as callback data
DEFAULT_MODE == "1"

\* Python's None: for a text or object value, and for a number or a date
None == "None"
NoValue == 0 - 1

\* message.from_user.id of the one user of the model
user_id == "user"

Tasks == {"t1", "t2"}
Procs == {"p1", "p2"}
\* Preset targets a user can select from the menu (callback data).
PresetModes == {"1", "2"}
\* utils.generate_filename: the path of the photo a task downloads is
\* unique per photo.
input_path(t) == [t1 |-> "target_images/t1", t2 |-> "target_images/t2"][t]
Modes == PresetModes \cup {input_path(t) : t \in Tasks}

\* the photos are named in the order of their arrival
Earlier(u, t) == u = "t1" /\ t = "t2"

Max(a, b) == IF a >= b THEN a ELSE b
Min(a, b) == IF a <= b THEN a ELSE b

RECURSIVE SumSeq(_, _)
SumSeq(s, f) == IF s = <<>> THEN 0 ELSE s[1][f] + SumSeq(Tail(s), f)

RECURSIVE SelectSeqAfter(_, _)
\* the rows of s whose expiration_date is > d, in order
SelectSeqAfter(s, d) ==
    IF s = <<>> THEN <<>>
    ELSE IF s[1].expiration_date > d
         THEN <<s[1]>> \o SelectSeqAfter(Tail(s), d)
         ELSE SelectSeqAfter(Tail(s), d)

RECURSIVE SelectSeqBy(_, _)
\* the rows of s whose expiration_date is >= d, in order
SelectSeqBy(s, d) ==
    IF s = <<>> THEN <<>>
    ELSE IF s[1].expiration_date >= d
         THEN <<s[1]>> \o SelectSeqBy(Tail(s), d)
         ELSE SelectSeqBy(Tail(s), d)

VARIABLES
    db_user,            \* the user's row of table users (db_models.User)
    premium_purchases,  \* the user's rows of table premium_purchases
    SENT_TIME,          \* checks.SENT_TIME[user id], NoValue when absent
    now,                \* datetime.now(), in seconds
    today,              \* datetime.now().date(), in days
    ticks,              \* how often the clock was advanced
    commands,           \* how many commands and scheduled jobs were run
    tasks,              \* the image handler tasks, one per incoming photo
    cmd,                \* the /target command handler (set_receive_flag)
    calls,              \* direct calls of the decrement functions
    error_logs,         \* the rows of table error_logs (db_models.ErrorLog)
    scheduler_log,      \* run_datetime of the last row of scheduler_logs for
                        \* job update_user_quotas, NoValue when there is none
    users,              \* the rows of table users as insert_user sees them:
                        \* external id and names
    inserts,            \* the calls of insert_user, one per caller
    job_runs,           \* runs of update_user_quotas so far (history)
    balance0,           \* the row before the direct calls (history)
    target_requests     \* successful /target commands so far (history),
                        \* counted up to the number of tasks

clock == <<now, today, ticks, commands>>
hist == <<balance0, target_requests, job_runs>>
tables == <<scheduler_log, users, inserts>>
vars == <<db_user, premium_purchases, SENT_TIME, clock, tasks, cmd, calls, hist,
          error_logs, tables>>

\* ------------------------------------------------- the table of users
\* names are sequences of characters; the characters the model draws
NameChars == {"a", " "}
Names == UNION {[1..n -> NameChars] : n \in 0..MaxNameLen}
\* a Telegram username has no space; first and last names may have
Usernames == {name \in Names : \A i \in 1..Len(name) : name[i] # " "}
\* the Telegram ids of the senders
UserIds == {1, 2}

\* str.replace(' ', '_')
replace(name) ==
    [i \in 1..Len(name) |-> IF name[i] = " " THEN "_" ELSE name[i]]

\* a call of insert_user that has not started; existing: the position of
\* the row the select returned, 0 for None
NoInsert ==
    [pc |-> "ready", user_id |-> 0, username |-> <<>>, first_name |-> <<>>,
     last_name |-> <<>>, existing |-> 0, loaded |-> <<<<>>, <<>>, <<>>>>]

\* select(User).filter_by(user_id=user_id): the position of the row, 0
\* when there is none
RowOf(rows, uid) ==
    IF \E i \in 1..Len(rows) : rows[i].user_id = uid
    THEN CHOOSE i \in 1..Len(rows) : rows[i].user_id = uid
    ELSE 0

\* db_fetching.fetch_user_data(user_id): the rows the select finds
fetch_user_data(uid) == {i \in 1..Len(users) : users[i].user_id = uid}

\* insert_user, lines 24-25: the call arrives with its arguments and its
\* session selects the user
InsertUserSelect(p) ==
    /\ inserts[p].pc = "ready"
    /\ \E uid \in UserIds, username \in Usernames, first_name \in Names,
          last_name \in Names :
         LET i == RowOf(users, uid) IN
         inserts' = [inserts EXCEPT ![p] =
            [pc |-> "selected", user_id |-> uid, username |-> username,
             first_name |-> first_name, last_name |-> last_name,
             existing |-> i,
             loaded |-> IF i = 0 THEN <<<<>>, <<>>, <<>>>>
                        ELSE <<users[i].username, users[i].first_name,
                               users[i].last_name>>]]
    /\ UNCHANGED <<db_user, premium_purchases, SENT_TIME, clock, tasks, cmd,
                   calls, hist, error_logs, scheduler_log, users>>

\* db_requests.insert_user stores the names as passed
stored_name_verbatim(name) == name

\* db_users.insert_user stores the names after lines 27-29
stored_name(name) == replace(name)

\* insert_user, lines 30-38: a new User is added when the select found
\* none, else the three names of the loaded row are assigned; then the
\* commit.  The INSERT of a user_id that has a row by now violates the
\* unique constraint of users.user_id (db_models.py 29) and the call
\* raises; the UPDATE writes the names that differ from the loaded ones.
InsertUserCommit(p) ==
    /\ inserts[p].pc = "selected"
    /\ LET c == inserts[p]
           u == stored_name(c.username)
           f == stored_name(c.first_name)
           l == stored_name(c.last_name)
       IN  IF c.existing = 0
           THEN IF RowOf(users, c.user_id) # 0
                THEN /\ users' = users
                     /\ inserts' = [inserts EXCEPT ![p].pc = "raised"]
                ELSE /\ users' = Append(users,
                                   [user_id |-> c.user_id, username |-> u,
                                    first_name |-> f, last_name |-> l])
                     /\ inserts' = [inserts EXCEPT ![p].pc = "returned"]
           ELSE /\ users' = [users EXCEPT ![c.existing] =
                       [user_id |-> c.user_id,
                        username |-> IF u # c.loaded[1] THEN u ELSE @.username,
                        first_name |-> IF f # c.loaded[2] THEN f
                                       ELSE @.first_name,
                        last_name |-> IF l # c.loaded[3] THEN l
                                      ELSE @.last_name]]
                /\ inserts' = [inserts EXCEPT ![p].pc = "returned"]
    /\ UNCHANGED <<db_user, premium_purchases, SENT_TIME, clock, tasks, cmd,
                   calls, hist, error_logs, scheduler_log>>

\* ------------------------------------------------------------ the ledger
\* db_models.User: a new row.
NewUser ==
    [status |-> "free", requests_left |-> FREE_REQUESTS, targets_left |-> 0,
     receive_target_flag |-> 0, mode |-> DEFAULT_MODE,
     last_photo_sent_timestamp |-> 0, premium_expiration |-> NoValue]

\* a local `user` that is not bound (before the fetch, after the return)
NoUser ==
    [status |-> None, requests_left |-> 0, targets_left |-> 0,
     receive_target_flag |-> 0, mode |-> None,
     last_photo_sent_timestamp |-> 0, premium_expiration |-> NoValue]

\* session.commit() of a session that loaded `loaded` and holds `changed`:
\* the UPDATE sets the attributes that were modified, the others keep the
\* value the row has at commit time.
Flush(row, loaded, changed) ==
    [f \in DOMAIN row |-> IF changed[f] # loaded[f] THEN changed[f] ELSE row[f]]

\* the decrement without the clamp at zero
decrement_requests_left_unclamped(user, n) ==
    [user EXCEPT !.requests_left = user.requests_left - n]

\* decrement_requests_left, lines 71-75, on the loaded user
decrement_requests_left(user, n) ==
    IF user.requests_left > 0
    THEN [user EXCEPT !.requests_left = Max(0, user.requests_left - n)]
    ELSE [user EXCEPT !.requests_left = 0]

\* the decrement without the clamp at zero
decrement_targets_left_unclamped(user, n) ==
    IF user.targets_left > 0
    THEN [user EXCEPT !.targets_left = user.targets_left - n]
    ELSE user

\* the test of line 91 with the bound off by one
decrement_targets_left_above_one(user, n) ==
    IF user.targets_left > 1
    THEN [user EXCEPT !.targets_left = Max(0, user.targets_left - n)]
    ELSE user

\* the decrement applied to the other balance
decrement_targets_left_other_column(user, n) ==
    IF user.targets_left > 0
    THEN [user EXCEPT !.requests_left = Max(0, user.requests_left - n)]
    ELSE user

\* decrement_targets_left, lines 91-93, on the loaded user
decrement_targets_left(user, n) ==
    IF user.targets_left > 0
    THEN [user EXCEPT !.targets_left = Max(0, user.targets_left - n)]
    ELSE user

\* ------------------------------------------- direct calls (SpecLedger)
\* fn: the function called; ret: what the caller received, NoValue for None
NoCall == [fn |-> None, n |-> 0, pc |-> "ready", loaded |-> NoUser, ret |-> NoValue]

\* await session.execute(select(User)...): the session loads the row
CallRead(p) ==
    /\ calls[p].pc = "ready"
    /\ calls' = [calls EXCEPT ![p].pc = "loaded", ![p].loaded = db_user]
    /\ UNCHANGED <<db_user, premium_purchases, SENT_TIME, clock,
                   tasks, cmd, hist, error_logs, tables>>

\* the body on the loaded object, then await session.commit(); the
\* functions end without a return statement, so the caller receives None
CallCommit(p) ==
    /\ calls[p].pc = "loaded"
    /\ LET c == calls[p]
           changed == IF c.fn = "requests"
                      THEN decrement_requests_left(c.loaded, c.n)
                      ELSE decrement_targets_left(c.loaded, c.n)
       IN  db_user' = Flush(db_user, c.loaded, changed)
    /\ calls' = [calls EXCEPT ![p].pc = "returned", ![p].ret = NoValue,
                              ![p].loaded = NoUser]
    /\ UNCHANGED <<premium_purchases, SENT_TIME, clock, tasks, cmd,
                   hist, error_logs, tables>>

\* ------------------------------------------------- the image pipeline
\* media_group_id: the field of the message the task handles, known once
\* the message has arrived; fault: a database call of the task raised;
\* arrived: datetime.now() of prevent_multisending for the photo;
\* accepted: datetime.now() when the photo passed image_handler_checks
\* (both kept as history, NoValue before)
NoTask ==
    [pc |-> "idle", user |-> NoUser, timestamp |-> 0, paths |-> 0, sent |-> 0,
     loaded |-> NoUser, invoked |-> FALSE, outcome |-> None, reported |-> NoValue,
     media_group_id |-> None, fault |-> FALSE, arrived |-> NoValue,
     accepted |-> NoValue]

\* the handler returns: its locals are gone, what it sent stays
Finish(t, how) ==
    [tasks EXCEPT ![t].pc = "done", ![t].outcome = how, ![t].user = NoUser,
                  ![t].loaded = NoUser, ![t].timestamp = 0]

\* the gate without the test of media_group_id
prevent_multisending_ignoring_group(media_group_id) ==
    SENT_TIME = NoValue \/ now - SENT_TIME >= DELAY_BETWEEN_IMAGES

\* the gate without the test of the time since SENT_TIME
prevent_multisending_without_window(media_group_id) ==
    media_group_id = None

\* a gate that lets the first photo of the user through whatever its
\* media_group_id
prevent_multisending_first_part(media_group_id) ==
    \/ SENT_TIME = NoValue
    \/ (media_group_id = None /\ now - SENT_TIME >= DELAY_BETWEEN_IMAGES)

\* a gate that measures the window on the timestamp stored in the user's
\* row, which is written some awaits after the gate
prevent_multisending_on_stored_timestamp(media_group_id) ==
    /\ media_group_id = None
    /\ now - db_user.last_photo_sent_timestamp >= DELAY_BETWEEN_IMAGES

\* checks.prevent_multisending: no await between the read of SENT_TIME and
\* its update
prevent_multisending(media_group_id) ==
    /\ media_group_id = None
    /\ (SENT_TIME = NoValue \/ now - SENT_TIME >= DELAY_BETWEEN_IMAGES)

\* message_handler.setup_handlers.image_handler: a photo arrives
ImageHandler(t) ==
    /\ tasks[t].pc = "idle"
    /\ \A u \in Tasks : Earlier(u, t) => tasks[u].pc # "idle"
    /\ \E media_group_id \in {None, "g"} :
         IF prevent_multisending(media_group_id)
         THEN /\ SENT_TIME' = now
              /\ tasks' = [tasks EXCEPT ![t].pc = "checks",
                                        ![t].media_group_id = media_group_id,
                                        ![t].arrived = now]
         ELSE /\ tasks' = [Finish(t, "too_fast_multisending") EXCEPT
                             ![t].media_group_id = media_group_id,
                             ![t].arrived = now]
              /\ UNCHANGED SENT_TIME
    /\ UNCHANGED <<db_user, premium_purchases, clock, cmd, calls,
                   hist, error_logs, tables>>

\* the test of line 48 with < for <=
check_limit_nonnegative(user) == user.requests_left >= 0

\* checks.check_limit
check_limit(user) == user.requests_left > 0

\* the test of line 65 with <= for <
check_time_limit_inclusive(user) ==
    \/ user.status = "premium"
    \/ ~(now - user.last_photo_sent_timestamp <= n_time)

\* the test of line 65 without lines 63-64
check_time_limit_all_tiers(user) ==
    ~(now - user.last_photo_sent_timestamp < n_time)

\* checks.check_time_limit
check_time_limit(user) ==
    \/ user.status = "premium"
    \/ ~(now - user.last_photo_sent_timestamp < n_time)

\* checks.image_handler_checks up to the call of update_photo_timestamp:
\* the user is fetched, the two checks run on the fetched object, and the
\* argument datetime.now() of update_photo_timestamp is evaluated
ImageHandlerChecks(t) ==
    /\ tasks[t].pc = "checks"
    /\ LET user == db_user IN
       tasks' = IF ~check_limit(user)
                THEN Finish(t, "no_attempts")
                ELSE IF ~check_time_limit(user)
                THEN Finish(t, "too_fast")
                ELSE [tasks EXCEPT ![t].pc = "stamp", ![t].user = user,
                                   ![t].timestamp = now,
                                   ![t].accepted = now]
    /\ UNCHANGED <<db_user, premium_purchases, SENT_TIME, clock,
                   cmd, calls, hist, error_logs, tables>>

\* the call without its assignment
update_photo_timestamp_skipped(user, timestamp) == user

\* db_updates.update_photo_timestamp, line 23, on the loaded user
update_photo_timestamp(user, timestamp) ==
    [user EXCEPT !.last_photo_sent_timestamp = timestamp]

\* db_updates.update_photo_timestamp commits
UpdatePhotoTimestamp(t) ==
    /\ tasks[t].pc = "stamp"
    /\ db_user' = update_photo_timestamp(db_user, tasks[t].timestamp)
    /\ tasks' = [tasks EXCEPT ![t].pc = "download"]
    /\ UNCHANGED <<premium_purchases, SENT_TIME, clock, cmd, calls,
                   hist, error_logs, tables>>

\* a check that takes every photo of a premium user with credits as a target
target_image_check_ignoring_flag(user) ==
    /\ user.status = "premium"
    /\ user.targets_left # 0

\* checks.target_image_check, line 111, on the user fetched by the checks
target_image_check(user) ==
    /\ user.status = "premium"
    /\ user.receive_target_flag # 0
    /\ user.targets_left # 0

\* image_utils.image_handler_swapper: session.post(FACE_EXTRACTION_URL) with
\* the path and the mode of the fetched user.  Status 200 carries the list
\* of output paths (image_handler_received_result); another status goes to
\* image_handler_result_failed and an exception to the handler of
\* commands.handle_image
image_handler_swapper(t, response, image_paths) ==
    IF response = "200"
    THEN [tasks EXCEPT ![t].invoked = TRUE, ![t].paths = image_paths,
                       ![t].pc = IF image_paths = 0 THEN "dec_read" ELSE "send"]
    ELSE [Finish(t, "failed") EXCEPT ![t].invoked = TRUE]

\* db_logging.log_error, called by the exception handler of
\* commands.handle_image (lines 282-285) with user.user_id and input_path
log_error(uid, details) ==
    error_logs \cup {[user_id |-> uid, details |-> details]}

\* only an exception of session.post reaches the exception handler
image_handler_result_answers(response) == response = "exception"

\* What reaches the exception handler of commands.handle_image from
\* image_handler_swapper: an exception of session.post, and, for a status
\* other than 200, the exception of image_handler_result_failed, whose
\* message.answer(LOCALIZATION) (line 110) passes the whole localization
\* mapping where aiogram validates a text.
image_handler_result_raises(response) == response # "200"

\* image_utils.image_handler_logic: session.get(file_url) answers.  On 200
\* image_handler_load saves the photo and target_image_check chooses the
\* branch: update_user_mode(user.user_id, input_image) (line 112 of checks)
\* or, when it returns None, image_handler_swapper.  Otherwise
\* image_handler_download_failed, or the exception handler of
\* commands.handle_image, ends the submission.  The download and the post
\* touch nothing of the bot's state, so they are one step with the
\* database call that follows them.
ImageHandlerLogic(t) ==
    /\ tasks[t].pc = "download"
    /\ \E response \in {"200", "404", "exception"} :
         IF response # "200"
         THEN /\ tasks' = Finish(t, "download_failed")
              /\ error_logs' = IF response = "exception"
                               THEN log_error(user_id, input_path(t))
                               ELSE error_logs
              /\ UNCHANGED db_user
         ELSE IF target_image_check(tasks[t].user)
         THEN /\ db_user' = [db_user EXCEPT !.mode = input_path(t)]
              /\ tasks' = [tasks EXCEPT ![t].pc = "tgt_toggle"]
              /\ UNCHANGED error_logs
         ELSE /\ \E post \in {"200", "500", "exception"} :
                 \E image_paths \in 0..MaxK :
                   /\ tasks' = image_handler_swapper(t, post, image_paths)
                   /\ error_logs' = IF image_handler_result_raises(post)
                                    THEN log_error(user_id, input_path(t))
                                    ELSE error_logs
              /\ UNCHANGED db_user
    /\ UNCHANGED <<premium_purchases, SENT_TIME, clock, cmd, calls, hist,
                   tables>>

\* target_image_check, lines 113-114: toggle_receive_target_flag(user_id)
\* with the default flag 0, then the answer with user.targets_left - 1
TargetToggleFlag(t) ==
    /\ tasks[t].pc = "tgt_toggle"
    /\ db_user' = [db_user EXCEPT !.receive_target_flag = 0]
    /\ tasks' = [tasks EXCEPT ![t].pc = "tgt_dec_read",
                              ![t].reported = tasks[t].user.targets_left - 1]
    /\ UNCHANGED <<premium_purchases, SENT_TIME, clock, cmd, calls,
                   hist, error_logs, tables>>

\* target_image_check, line 115: decrement_targets_left selects the user
TargetDecrementRead(t) ==
    /\ tasks[t].pc = "tgt_dec_read"
    /\ tasks' = [tasks EXCEPT ![t].pc = "tgt_dec_commit", ![t].loaded = db_user]
    /\ UNCHANGED <<db_user, premium_purchases, SENT_TIME, clock,
                   cmd, calls, hist, error_logs, tables>>

\* decrement_targets_left commits; target_image_check returns True and
\* image_handler_logic returns
TargetDecrementCommit(t) ==
    /\ tasks[t].pc = "tgt_dec_commit"
    /\ db_user' = Flush(db_user, tasks[t].loaded,
                        decrement_targets_left(tasks[t].loaded, 1))
    /\ tasks' = Finish(t, "target_uploaded")
    /\ UNCHANGED <<premium_purchases, SENT_TIME, clock, cmd, calls,
                   hist, error_logs, tables>>

\* image_utils.handler_image_send, one round of the loop: the user is
\* fetched again, check_limit runs on it, and the photo is sent
HandlerImageSend(t) ==
    /\ tasks[t].pc = "send"
    /\ LET user == db_user IN
       tasks' = IF ~check_limit(user)
                THEN Finish(t, "no_attempts_sending")
                ELSE [tasks EXCEPT
                        ![t].sent = tasks[t].sent + 1,
                        ![t].pc = IF tasks[t].sent + 1 = tasks[t].paths
                                  THEN "dec_read" ELSE "send"]
    /\ UNCHANGED <<db_user, premium_purchases, SENT_TIME, clock, cmd, calls,
                   hist, error_logs, tables>>

\* image_handler_received_result, line 94: decrement_requests_left selects
\* the user
RequestsDecrementRead(t) ==
    /\ tasks[t].pc = "dec_read"
    /\ tasks' = [tasks EXCEPT ![t].pc = "dec_commit", ![t].loaded = db_user]
    /\ UNCHANGED <<db_user, premium_purchases, SENT_TIME, clock, cmd, calls,
                   hist, error_logs, tables>>

\* the limit image_handler_received_result reports, lines 95-96
attempts_left(user, image_paths) == Max(0, user.requests_left - image_paths)

\* decrement_requests_left(user_id, n=len(image_paths)) commits, and the
\* remaining attempts are reported from the user fetched by the checks
RequestsDecrementCommit(t) ==
    /\ tasks[t].pc = "dec_commit"
    /\ db_user' = Flush(db_user, tasks[t].loaded,
                        decrement_requests_left(tasks[t].loaded, tasks[t].paths))
    /\ tasks' = [Finish(t, "attempts_left") EXCEPT
                   ![t].reported = attempts_left(tasks[t].user, tasks[t].paths)]
    /\ UNCHANGED <<premium_purchases, SENT_TIME, clock, cmd, calls, hist, error_logs, tables>>

\* ---------------------------------------- a database call that raises
\* The positions of a handler whose next statement is a database call:
\* fetch_user_data and update_photo_timestamp in image_handler_checks,
\* toggle_receive_target_flag and decrement_targets_left in
\* target_image_check, fetch_user_data in handler_image_send,
\* decrement_requests_left in image_handler_received_result.
DatabaseCalls ==
    {"checks", "stamp", "tgt_toggle", "tgt_dec_read", "tgt_dec_commit",
     "send", "dec_read", "dec_commit"}

\* commands.handle_image, lines 280-285: the calls made by
\* image_handler_logic are inside the try, image_handler_checks is not
InsideTry == DatabaseCalls \ {"checks", "stamp"}

\* The session of the call raises and nothing is written.  Outside the try
\* the exception leaves handle_image; inside it the handler logs the error
\* and answers failed, unless log_error, a database call itself, raises
\* too.
PersistenceFailed(t) ==
    /\ tasks[t].pc \in DatabaseCalls
    /\ IF tasks[t].pc \in InsideTry
       THEN \E logged \in BOOLEAN :
              IF logged
              THEN /\ error_logs' = log_error(user_id, input_path(t))
                   /\ tasks' = [Finish(t, "failed") EXCEPT ![t].fault = TRUE]
              ELSE /\ UNCHANGED error_logs
                   /\ tasks' = [Finish(t, "raised") EXCEPT ![t].fault = TRUE]
       ELSE /\ UNCHANGED error_logs
            /\ tasks' = [Finish(t, "raised") EXCEPT ![t].fault = TRUE]
    /\ UNCHANGED <<db_user, premium_purchases, SENT_TIME, clock, cmd, calls,
                   hist, tables>>

\* ------------------------------------------------------------ commands
\* the test of line 222 without its second half
may_receive_target_any_balance(user) == user.status = "premium"

\* commands.set_receive_flag, line 222, on the fetched user
may_receive_target(user) == user.status = "premium" /\ user.targets_left > 0

\* commands.set_receive_flag: fetch_user_by_id and the test of line 222
SetReceiveFlagFetch ==
    /\ cmd.pc = "idle"
    /\ commands < MaxCommands
    /\ commands' = commands + 1
    /\ cmd' = [pc |-> IF may_receive_target(db_user) THEN "toggle" ELSE "deny",
               answer |-> None]
    /\ UNCHANGED <<db_user, premium_purchases, SENT_TIME, now, today, ticks,
                   tasks, calls, hist, error_logs, tables>>

\* commands.set_receive_flag, lines 223-225: toggle_receive_target_flag(id, 1)
\* and the answer target_request
SetReceiveFlagToggle ==
    /\ cmd.pc = "toggle"
    /\ db_user' = [db_user EXCEPT !.receive_target_flag = 1]
    /\ cmd' = [pc |-> "idle", answer |-> "target_request"]
    /\ target_requests' = Min(target_requests + 1, Cardinality(Tasks))
    /\ UNCHANGED <<premium_purchases, SENT_TIME, clock, tasks, calls, balance0,
                   job_runs, error_logs, tables>>

\* commands.set_receive_flag, line 226: the answer not_premium
SetReceiveFlagDeny ==
    /\ cmd.pc = "deny"
    /\ cmd' = [pc |-> "idle", answer |-> "not_premium"]
    /\ UNCHANGED <<db_user, premium_purchases, SENT_TIME, clock, tasks, calls,
                   hist, error_logs, tables>>

\* a selection that sets the mode and leaves the flag
process_image_selection_keeping_flag(user, data) ==
    [user EXCEPT !.mode = data]

\* callbacks.process_image_selection, lines 97-98, on the user's row:
\* toggle_receive_target_flag(user_id) with the default flag 0, then
\* update_user_mode(user_id, data)
process_image_selection(user, data) ==
    [user EXCEPT !.receive_target_flag = 0, !.mode = data]

\* callbacks.process_image_selection: the flag is cleared and the mode set
ProcessImageSelection ==
    /\ commands < MaxCommands
    /\ commands' = commands + 1
    /\ \E data \in PresetModes :
         db_user' = process_image_selection(db_user, data)
    /\ UNCHANGED <<premium_purchases, SENT_TIME, now, today, ticks, tasks, cmd,
                   calls, hist, error_logs, tables>>

\* a reset that leaves the target credits of the user
set_requests_left_keeping_targets(user, number) ==
    [user EXCEPT !.status = "free", !.premium_expiration = NoValue,
                 !.requests_left = number]

\* db_users.set_requests_left(user_id, FREE_REQUESTS), called by
\* commands.reset_images_left
set_requests_left(user, number) ==
    [user EXCEPT !.status = "free", !.premium_expiration = NoValue,
                 !.targets_left = 0, !.requests_left = number]

ResetImagesLeft ==
    /\ commands < MaxCommands
    /\ commands' = commands + 1
    /\ db_user' = set_requests_left(db_user, FREE_REQUESTS)
    /\ premium_purchases' = <<>>
    /\ UNCHANGED <<SENT_TIME, now, today, ticks, tasks, cmd, calls, hist, error_logs, tables>>

\* db_users.buy_premium, lines 134-140: the PremiumPurchase row
new_premium ==
    [expiration_date |-> today + PREMIUM_DAYS,
     targets_increment |-> PREMIUM_REQUESTS,
     request_increment |-> PREMIUM_TARGETS]

\* a payment that sets the balances to the premium amounts
buy_premium_overwriting(user) ==
    [user EXCEPT !.requests_left = PREMIUM_REQUESTS,
                 !.targets_left = PREMIUM_TARGETS,
                 !.status = "premium",
                 !.premium_expiration = today + PREMIUM_DAYS]

\* db_users.buy_premium, lines 143-146, on the loaded user
buy_premium(user) ==
    [user EXCEPT !.requests_left = user.requests_left + PREMIUM_REQUESTS,
                 !.targets_left = user.targets_left + PREMIUM_TARGETS,
                 !.status = "premium",
                 !.premium_expiration = today + PREMIUM_DAYS]

\* commands.set_user_to_premium
SetUserToPremium ==
    /\ commands < MaxCommands
    /\ commands' = commands + 1
    /\ Len(premium_purchases) < MaxPurchases
    /\ premium_purchases' = Append(premium_purchases, new_premium)
    /\ db_user' = buy_premium(db_user)
    /\ UNCHANGED <<SENT_TIME, now, today, ticks, tasks, cmd, calls, hist, error_logs, tables>>

\* the free quota granted on top of what the user has left
update_user_quotas_granting(user, active_purchases) ==
    IF active_purchases # <<>>
    THEN [user EXCEPT
            !.requests_left = SumSeq(active_purchases, "request_increment"),
            !.targets_left = SumSeq(active_purchases, "targets_increment")]
    ELSE [user EXCEPT !.status = "free",
                      !.requests_left = user.requests_left + FREE_REQUESTS,
                      !.premium_expiration = NoValue]

\* the quotas added to the balances the user has
update_user_quotas_additive(user, active_purchases) ==
    IF active_purchases # <<>>
    THEN [user EXCEPT
            !.requests_left = user.requests_left
                              + SumSeq(active_purchases, "request_increment"),
            !.targets_left = user.targets_left
                             + SumSeq(active_purchases, "targets_increment")]
    ELSE [user EXCEPT !.status = "free", !.requests_left = FREE_REQUESTS,
                      !.premium_expiration = NoValue]

\* db_updates.update_user_quotas, lines 53-66, for one user and the
\* purchases that are still active
update_user_quotas(user, active_purchases) ==
    IF active_purchases # <<>>
    THEN [user EXCEPT
            !.requests_left = SumSeq(active_purchases, "request_increment"),
            !.targets_left = SumSeq(active_purchases, "targets_increment")]
    ELSE [user EXCEPT !.status = "free", !.requests_left = FREE_REQUESTS,
                      !.premium_expiration = NoValue]

\* db_logging.log_scheduler_run, lines 48-57: a row is added when the job
\* has no row yet or the last one is at least hour_delay old; run_datetime
\* of the new row is the time of the insert
log_scheduler_run(hour_delay) ==
    IF scheduler_log = NoValue \/ now - scheduler_log >= hour_delay
    THEN now
    ELSE scheduler_log

\* one run of db_updates.update_user_quotas: the expired purchases are
\* deleted, the quotas set from the active ones, and the run is logged
RunUpdateUserQuotas ==
    /\ premium_purchases' = SelectSeqBy(premium_purchases, today)
    /\ db_user' = update_user_quotas(db_user, premium_purchases')
    /\ scheduler_log' = log_scheduler_run(HOUR_INTERVAL)
    /\ job_runs' = job_runs + 1
    /\ UNCHANGED <<SENT_TIME, now, today, ticks, tasks, cmd, calls, balance0,
                   target_requests, error_logs, users, inserts>>

\* the scheduled job db_updates.update_user_quotas
UpdateUserQuotas ==
    /\ commands < MaxCommands
    /\ commands' = commands + 1
    /\ RunUpdateUserQuotas

\* ------------------------------------------------------------- the clock
TickSteps == {DELAY_BETWEEN_IMAGES, n_time}

\* the clock is read by the gates only: it is advanced while a photo has
\* still to pass them
Tick ==
    /\ ticks < MaxTicks
    /\ \E t \in Tasks : tasks[t].pc \in {"idle", "checks"}
    /\ \E d \in TickSteps : now' = now + d
    /\ ticks' = ticks + 1
    /\ UNCHANGED <<db_user, premium_purchases, SENT_TIME, today, commands,
                   tasks, cmd, calls, hist, error_logs, tables>>

\* the date is read by buy_premium and update_user_quotas only
NextDay ==
    /\ today < MaxDay
    /\ commands < MaxCommands
    /\ today' = today + 1
    /\ UNCHANGED <<db_user, premium_purchases, SENT_TIME, now, ticks, commands,
                   tasks, cmd, calls, hist, error_logs, tables>>

\* ----------------------------------------------------- specifications
NoCmd == [pc |-> "idle", answer |-> None]

\* The rows the pipeline starts from: a free user who has used the bot
\* (any balance up to the free baseline), and a user whose payment of
\* PREMIUM_DAYS days ago made them premium (buy_premium on a free row),
\* with or without a pending /target.
FreeRows == {[NewUser EXCEPT !.requests_left = b] : b \in 0..FREE_REQUESTS}

PremiumRows ==
    {[NewUser EXCEPT !.status = "premium",
                     !.requests_left = b + PREMIUM_REQUESTS,
                     !.targets_left = PREMIUM_TARGETS,
                     !.receive_target_flag = f,
                     !.premium_expiration = 0] :
        b \in {0}, f \in {0, 1}}

InitCommon ==
    /\ SENT_TIME = NoValue
    /\ now = n_time
    /\ today = 0
    /\ ticks = 0
    /\ commands = 0
    /\ tasks = [t \in Tasks |-> NoTask]
    /\ cmd = NoCmd
    /\ calls = [p \in Procs |-> NoCall]
    /\ error_logs = {}
    /\ scheduler_log = NoValue
    /\ users = <<>>
    /\ inserts = [p \in Procs |-> NoInsert]
    /\ job_runs = 0
    /\ balance0 = db_user

Init ==
    /\ \/ /\ db_user \in FreeRows
          /\ premium_purchases = <<>>
          /\ target_requests = 0
       \/ /\ db_user \in PremiumRows
          /\ premium_purchases =
                <<[expiration_date |-> 0, targets_increment |-> PREMIUM_REQUESTS,
                   request_increment |-> PREMIUM_TARGETS]>>
          /\ target_requests = db_user.receive_target_flag
    /\ InitCommon

TaskStep(t) ==
    \/ ImageHandler(t)
    \/ ImageHandlerChecks(t)
    \/ UpdatePhotoTimestamp(t)
    \/ ImageHandlerLogic(t)
    \/ TargetToggleFlag(t)
    \/ TargetDecrementRead(t)
    \/ TargetDecrementCommit(t)
    \/ HandlerImageSend(t)
    \/ RequestsDecrementRead(t)
    \/ RequestsDecrementCommit(t)

Next ==
    \/ \E t \in Tasks : TaskStep(t)
    \/ SetReceiveFlagFetch
    \/ SetReceiveFlagToggle
    \/ SetReceiveFlagDeny
    \/ ProcessImageSelection
    \/ ResetImagesLeft
    \/ SetUserToPremium
    \/ UpdateUserQuotas
    \/ Tick

Spec == Init /\ [][Next]_vars

\* ---- the handlers one at a time: no two of them are in flight together
Busy(t) == tasks[t].pc \notin {"idle", "done"}
NoneBusy == cmd.pc = "idle" /\ \A t \in Tasks : ~Busy(t)

NextSeq ==
    \/ \E t \in Tasks :
         /\ cmd.pc = "idle"
         /\ \A u \in Tasks \ {t} : ~Busy(u)
         /\ TaskStep(t)
    \/ NoneBusy /\ SetReceiveFlagFetch
    \/ SetReceiveFlagToggle
    \/ SetReceiveFlagDeny
    \/ NoneBusy /\ ProcessImageSelection
    \/ NoneBusy /\ ResetImagesLeft
    \/ NoneBusy /\ SetUserToPremium
    \/ NoneBusy /\ UpdateUserQuotas
    \/ NoneBusy /\ Tick
    \/ NoneBusy /\ NextDay

SpecSeq == Init /\ [][NextSeq]_vars

\* ---- the handlers one at a time, with database calls that may raise
NextFault ==
    \/ NextSeq
    \/ \E t \in Tasks :
         /\ cmd.pc = "idle"
         /\ \A u \in Tasks \ {t} : ~Busy(u)
         /\ PersistenceFailed(t)

SpecFault == Init /\ [][NextFault]_vars

\* ---- the scheduled job alone, on any purchase rows: rows of any
\* increments and expiration dates, a user of either status whose
\* balances are zero or MaxBalance
PurchaseRows ==
    [expiration_date : 0..MaxDay, targets_increment : 0..1,
     request_increment : 0..MaxGrant]

InitQuota ==
    /\ \E st \in {"free", "premium"}, b \in {0, MaxBalance} :
         db_user = [NewUser EXCEPT !.status = st, !.requests_left = b,
                                   !.targets_left = b]
    /\ \E n \in 0..MaxRecords : premium_purchases \in [1..n -> PurchaseRows]
    /\ target_requests = 0
    /\ InitCommon

NextQuota == UpdateUserQuotas \/ NextDay

SpecQuota == InitQuota /\ [][NextQuota]_vars

\* ---- direct calls of the two decrement functions on one user, each with
\* its own session, on any balances
InitLedger ==
    /\ \E r \in 0..MaxBalance, g \in 0..MaxBalance :
         db_user = [NewUser EXCEPT !.requests_left = r, !.targets_left = g]
    /\ premium_purchases = <<>>
    /\ target_requests = 0
    /\ SENT_TIME = NoValue
    /\ now = n_time
    /\ today = 0
    /\ ticks = 0
    /\ commands = 0
    /\ tasks = [t \in Tasks |-> NoTask]
    /\ cmd = NoCmd
    /\ error_logs = {}
    /\ scheduler_log = NoValue
    /\ users = <<>>
    /\ inserts = [p \in Procs |-> NoInsert]
    /\ job_runs = 0
    /\ calls \in [Procs -> {[NoCall EXCEPT !.fn = f, !.n = n] :
                              f \in {"requests", "targets"}, n \in 0..MaxN}]
    /\ balance0 = db_user

NextLedger == \E p \in Procs : CallRead(p) \/ CallCommit(p)

SpecLedger == InitLedger /\ [][NextLedger]_vars

\* ---- the scheduled job next to the calls that write the same row: one
\* direct decrement_requests_left, one set_requests_left (the reset) taken
\* await by await, a payment, and up to MaxRuns runs of the job on one day
\* set_requests_left, lines 106-107: the session of the reset loads the row
SetRequestsLeftFetch(p) ==
    /\ calls[p].fn = "reset"
    /\ calls[p].pc = "ready"
    /\ calls' = [calls EXCEPT ![p].pc = "loaded", ![p].loaded = db_user]
    /\ UNCHANGED <<db_user, premium_purchases, SENT_TIME, clock,
                   tasks, cmd, hist, error_logs, tables>>

\* set_requests_left, line 111: delete_premium_purchases_by_user_id deletes
\* the purchases of the user in a session of its own and commits
delete_premium_purchases_by_user_id(p) ==
    /\ calls[p].fn = "reset"
    /\ calls[p].pc = "loaded"
    /\ premium_purchases' = <<>>
    /\ calls' = [calls EXCEPT ![p].pc = "deleted"]
    /\ UNCHANGED <<db_user, SENT_TIME, clock, tasks, cmd, hist, error_logs,
                   tables>>

\* set_requests_left, lines 108-113: the assignments on the loaded user
\* and the commit of the session of the reset
SetRequestsLeftCommit(p) ==
    /\ calls[p].fn = "reset"
    /\ calls[p].pc = "deleted"
    /\ db_user' = Flush(db_user, calls[p].loaded,
                        set_requests_left(calls[p].loaded, FREE_REQUESTS))
    /\ calls' = [calls EXCEPT ![p].pc = "returned", ![p].loaded = NoUser]
    /\ UNCHANGED <<premium_purchases, SENT_TIME, clock, tasks, cmd, hist,
                   error_logs, tables>>

\* the job started by the scheduler or by hand
ReconcileRun ==
    /\ job_runs < MaxRuns
    /\ commands' = commands
    /\ RunUpdateUserQuotas

InitReconcile ==
    /\ \/ /\ db_user \in FreeRows
          /\ premium_purchases = <<>>
       \/ /\ db_user \in PremiumRows
          /\ db_user.receive_target_flag = 0
          /\ premium_purchases =
                <<[expiration_date |-> 0, targets_increment |-> PREMIUM_REQUESTS,
                   request_increment |-> PREMIUM_TARGETS]>>
    /\ target_requests = 0
    /\ SENT_TIME = NoValue
    /\ now = n_time
    /\ today = 0
    /\ ticks = 0
    /\ commands = 0
    /\ tasks = [t \in Tasks |-> NoTask]
    /\ cmd = NoCmd
    /\ error_logs = {}
    /\ scheduler_log = NoValue
    /\ users = <<>>
    /\ inserts = [p \in Procs |-> NoInsert]
    /\ job_runs = 0
    /\ \E n \in 1..2 :
         calls = [p \in Procs |->
                    IF p = "p1" THEN [NoCall EXCEPT !.fn = "requests", !.n = n]
                    ELSE [NoCall EXCEPT !.fn = "reset"]]
    /\ balance0 = db_user

NextReconcile ==
    \/ CallRead("p1")
    \/ CallCommit("p1")
    \/ SetRequestsLeftFetch("p2")
    \/ delete_premium_purchases_by_user_id("p2")
    \/ SetRequestsLeftCommit("p2")
    \/ SetUserToPremium
    \/ ReconcileRun
    \/ Tick

SpecReconcile == InitReconcile /\ [][NextReconcile]_vars

\* ---- runs of the scheduled job in a row: the day may change before the
\* first run, and after it nothing happens but further runs
NextRepeat == ReconcileRun \/ (job_runs = 0 /\ NextDay)

SpecRepeat == InitQuota /\ [][NextRepeat]_vars

\* ---- the decrement functions of both copies of the database layer
\* (database/db_users.py and db_requests.py), called directly on a free or
\* premium user with balances 0 or MaxBalance
\* db_requests.decrement_requests_left, lines 173-178, on the loaded user
decrement_requests_left_db_requests(user, n) ==
    IF user.requests_left > 0
    THEN [user EXCEPT !.requests_left = Max(0, user.requests_left - n)]
    ELSE [user EXCEPT !.status = "free", !.requests_left = 0]

\* the body of db_requests.decrement_requests_left on the loaded object,
\* then await session.commit()
CallCommitDbRequests(p) ==
    /\ calls[p].pc = "loaded"
    /\ calls[p].fn = "db_requests"
    /\ db_user' = Flush(db_user, calls[p].loaded,
                        decrement_requests_left_db_requests(calls[p].loaded,
                                                            calls[p].n))
    /\ calls' = [calls EXCEPT ![p].pc = "returned", ![p].ret = NoValue,
                              ![p].loaded = NoUser]
    /\ UNCHANGED <<premium_purchases, SENT_TIME, clock, tasks, cmd,
                   hist, error_logs, tables>>

InitCopies ==
    /\ \E st \in {"free", "premium"}, r \in {0, MaxBalance},
          g \in {0, MaxBalance}, f \in {0, 1} :
         /\ db_user = [NewUser EXCEPT !.status = st, !.requests_left = r,
                                      !.targets_left = g,
                                      !.receive_target_flag = f,
                                      !.premium_expiration =
                                          IF st = "premium" THEN 0 ELSE NoValue]
         /\ premium_purchases =
               IF st = "premium"
               THEN <<[expiration_date |-> 0,
                       targets_increment |-> PREMIUM_REQUESTS,
                       request_increment |-> PREMIUM_TARGETS]>>
               ELSE <<>>
    /\ target_requests = 0
    /\ SENT_TIME = NoValue
    /\ now = n_time
    /\ today = 0
    /\ ticks = 0
    /\ commands = 0
    /\ tasks = [t \in Tasks |-> NoTask]
    /\ cmd = NoCmd
    /\ error_logs = {}
    /\ scheduler_log = NoValue
    /\ users = <<>>
    /\ inserts = [p \in Procs |-> NoInsert]
    /\ job_runs = 0
    /\ calls \in [Procs -> {[NoCall EXCEPT !.fn = f, !.n = n] :
                              f \in {"requests", "targets", "db_requests"},
                              n \in 1..2}]
    /\ balance0 = db_user

NextCopies ==
    \E p \in Procs :
        \/ CallRead(p)
        \/ calls[p].fn # "db_requests" /\ CallCommit(p)
        \/ CallCommitDbRequests(p)

SpecCopies == InitCopies /\ [][NextCopies]_vars

\* ---- calls of insert_user, each with a session of its own
InitUsers ==
    /\ db_user = NewUser
    /\ premium_purchases = <<>>
    /\ target_requests = 0
    /\ InitCommon

NextUsers == \E p \in Procs : InsertUserSelect(p) \/ InsertUserCommit(p)

SpecUsers == InitUsers /\ [][NextUsers]_vars

\* ================================================================ claims
Balance(fn) ==
    IF fn = "requests" THEN db_user.requests_left ELSE db_user.targets_left
Balance0(fn) ==
    IF fn = "requests" THEN balance0.requests_left ELSE balance0.targets_left
Delivered(t) == tasks[t].sent
AfterChecks ==
    {"stamp", "download", "tgt_toggle", "tgt_dec_read", "tgt_dec_commit",
     "send", "dec_read", "dec_commit"}
TargetBranch == {"tgt_toggle", "tgt_dec_read", "tgt_dec_commit"}

\* C1: in every reachable state of the bot (photos handled concurrently,
\* /target, menu selection, /reset_user, payment, update_user_quotas)
\* requests_left >= 0 and targets_left >= 0.
C1_NonNegative ==
    db_user.requests_left >= 0 /\ db_user.targets_left >= 0

\* a free user received MaxK photos for fewer attempts, and the decrement
\* stopped at zero
C1_Witness ==
    \E t \in Tasks :
        /\ tasks[t].outcome = "attempts_left"
        /\ tasks[t].sent = MaxK
        /\ balance0.status = "free"
        /\ commands = 0
        /\ db_user.requests_left = 0

\* C2 (as claimed): when the photos of a submission handled alone have
\* been sent, their number is min(k, b), k the outputs the service
\* returned and b the user's requests_left.
C2_DeliversMin ==
    \A t \in Tasks :
        tasks[t].pc = "dec_read" =>
            Delivered(t) = Min(tasks[t].paths, tasks[t].user.requests_left)

\* C3 (as claimed): with no command or job run, the photos sent to the
\* user over all submissions never exceed the requests_left the user had
\* before the first of them.
C3_TotalWithinBalance ==
    commands = 0 =>
        Delivered("t1") + Delivered("t2") <= balance0.requests_left

C5_NoLostUpdate ==
    (/\ \A p \in Procs : calls[p].pc = "returned"
     /\ calls["p1"].fn = calls["p2"].fn)
    => Balance(calls["p1"].fn) =
           Max(0, Balance0(calls["p1"].fn) - calls["p1"].n - calls["p2"].n)

\* C6: handlers one at a time.  A photo of a user fetched with the flag
\* set, status premium and targets_left >= 1 whose download succeeds is
\* stored as the user's mode; the flag is then cleared; and when the
\* submission ends targets_left is one less than before, the mode is the
\* photo and the flag is clear.
C6_TargetSettled ==
    [][\A t \in Tasks :
        /\ (/\ tasks[t].pc = "download"
            /\ tasks'[t].outcome # "download_failed"
            /\ tasks[t].user.receive_target_flag = 1
            /\ tasks[t].user.status = "premium"
            /\ tasks[t].user.targets_left >= 1)
           => (tasks'[t].pc = "tgt_toggle" /\ db_user'.mode = input_path(t))
        /\ (tasks[t].pc = "tgt_toggle" /\ tasks'[t].pc # "tgt_toggle")
           => db_user'.receive_target_flag = 0
        /\ (tasks[t].pc = "tgt_dec_commit" /\ tasks'[t].pc = "done")
           => /\ tasks'[t].outcome = "target_uploaded"
              /\ db_user'.targets_left = tasks[t].user.targets_left - 1
              /\ db_user'.mode = input_path(t)
              /\ db_user'.receive_target_flag = 0
      ]_vars

C6_Witness ==
    \E t \in Tasks :
        /\ tasks[t].outcome = "target_uploaded"
        /\ db_user.mode = input_path(t)
        /\ db_user.receive_target_flag = 0
        /\ db_user.targets_left = PREMIUM_TARGETS - 1

\* C7: handlers one at a time.  No step of a submission on the target
\* branch changes requests_left or posts to the FaceSwap service, and
\* when the submission ends requests_left is what the checks fetched.
C7_TargetBranchFrame ==
    [][\A t \in Tasks :
        /\ (tasks'[t].pc \in TargetBranch \/ tasks[t].pc \in TargetBranch)
           => (db_user'.requests_left = db_user.requests_left
               /\ ~tasks'[t].invoked)
        /\ (tasks[t].pc = "tgt_dec_commit" /\ tasks'[t].pc = "done")
           => db_user'.requests_left = tasks[t].user.requests_left
      ]_vars

C7_Witness ==
    \E t \in Tasks :
        /\ tasks[t].outcome = "target_uploaded"
        /\ ~tasks[t].invoked
        /\ db_user.requests_left = balance0.requests_left
        /\ db_user.requests_left > 0

\* C8 (as claimed): the submissions settled as a target never outnumber
\* the successful /target commands.
C8_OneTargetPerRequest ==
    Cardinality({t \in Tasks : tasks[t].outcome = "target_uploaded"})
        <= target_requests

\* C9 (as claimed): handlers one at a time.  When a submission that passed
\* the checks with the flag set ends, the flag is clear.
C9_FlagClearedAtEnd ==
    [][\A t \in Tasks :
        (/\ tasks[t].pc \in AfterChecks
         /\ tasks'[t].pc = "done"
         /\ tasks[t].user.receive_target_flag = 1)
        => db_user'.receive_target_flag = 0
      ]_vars

\* C10: handlers one at a time.  The flag is raised only by /target, for a
\* user whose status is premium and whose targets_left is > 0, and that
\* step changes nothing else of the row; a /target that finds the user
\* not premium or without targets answers not_premium and leaves the row
\* and the purchases as they were.
C10_TargetRequestGuard ==
    [][/\ (db_user.receive_target_flag = 0 /\ db_user'.receive_target_flag = 1)
          => /\ cmd.pc = "toggle"
             /\ db_user.status = "premium"
             /\ db_user.targets_left > 0
             /\ db_user' = [db_user EXCEPT !.receive_target_flag = 1]
       /\ (cmd.pc = "toggle" /\ cmd'.pc = "idle")
          => /\ db_user.status = "premium"
             /\ db_user.targets_left > 0
             /\ db_user' = [db_user EXCEPT !.receive_target_flag = 1]
       /\ (cmd.pc = "deny" \/ cmd'.pc = "deny")
          => /\ ~(db_user.status = "premium" /\ db_user.targets_left > 0)
             /\ db_user' = db_user
             /\ premium_purchases' = premium_purchases
      ]_vars

C10_Witness ==
    /\ cmd.answer = "target_request"
    /\ db_user.receive_target_flag = 1
    /\ balance0.receive_target_flag = 0

\* the time since the photo timestamp of the row, as check_time_limit
\* computes it
SinceLastPhoto == now - db_user.last_photo_sent_timestamp
\* the time since the last submission that passed prevent_multisending
InBurstWindow ==
    SENT_TIME # NoValue /\ now - SENT_TIME < DELAY_BETWEEN_IMAGES
RateLimited == {"too_fast_multisending", "too_fast"}

\* C11: handlers one at a time.  A photo of a free user with attempts left
\* that reaches the cooldown test is answered too_fast exactly when
\* now - last_photo_sent_timestamp < n_time, and goes on otherwise.
C11_CooldownGate ==
    [][\A t \in Tasks :
        (/\ tasks[t].pc = "checks"
         /\ tasks'[t].pc # "checks"
         /\ db_user.status = "free"
         /\ db_user.requests_left > 0)
        => IF SinceLastPhoto < n_time
           THEN tasks'[t].pc = "done" /\ tasks'[t].outcome = "too_fast"
           ELSE tasks'[t].pc = "stamp"
      ]_vars

\* a free user's first photo was accepted, the second one, sent
\* DELAY_BETWEEN_IMAGES later with attempts left, was answered too_fast
C11_Witness ==
    /\ tasks["t1"].outcome \in {"attempts_left", "failed", "download_failed"}
    /\ tasks["t2"].outcome = "too_fast"
    /\ db_user.status = "free"
    /\ db_user.requests_left > 0
    /\ SinceLastPhoto = DELAY_BETWEEN_IMAGES

\* C12: handlers one at a time.  No photo of a user whose status is
\* premium is answered too_fast by the cooldown test, and with attempts
\* left it passes the checks, whatever the time since the last photo.
C12_PremiumNeverCooled ==
    [][\A t \in Tasks :
        (/\ tasks[t].pc = "checks"
         /\ tasks'[t].pc # "checks"
         /\ db_user.status = "premium")
        => /\ tasks'[t].outcome # "too_fast"
           /\ db_user.requests_left > 0 => tasks'[t].pc = "stamp"
      ]_vars

\* a premium user's photo passed the checks less than n_time after the
\* previous one
C12_Witness ==
    \E t \in Tasks :
        /\ tasks[t].pc = "stamp"
        /\ tasks[t].user.status = "premium"
        /\ tasks[t].timestamp - tasks[t].user.last_photo_sent_timestamp < n_time
        /\ tasks[t].timestamp - tasks[t].user.last_photo_sent_timestamp > 0

\* C13: a photo that arrives less than DELAY_BETWEEN_IMAGES after the last
\* one that passed prevent_multisending, or that carries a media_group_id,
\* is answered too_fast whatever the user's status and balance, and its
\* rejection changes neither SENT_TIME nor the user's row.
C13_BurstGate ==
    [][\A t \in Tasks :
        (tasks[t].pc = "idle" /\ tasks'[t].pc # "idle")
        => /\ (InBurstWindow \/ tasks'[t].media_group_id # None)
              => /\ tasks'[t].pc = "done"
                 /\ tasks'[t].outcome = "too_fast_multisending"
           /\ tasks'[t].outcome = "too_fast_multisending"
              => /\ SENT_TIME' = SENT_TIME
                 /\ db_user' = db_user
      ]_vars

\* a premium user's second photo, no part of a media group, was rejected
\* inside the window of the first, which had passed the gate
C13_Witness ==
    /\ balance0.status = "premium"
    /\ tasks["t1"].outcome # "too_fast_multisending"
    /\ tasks["t1"].pc # "idle"
    /\ tasks["t2"].outcome = "too_fast_multisending"
    /\ tasks["t2"].media_group_id = None
    /\ SENT_TIME = now

\* C14: a photo refused by prevent_multisending or by check_time_limit is
\* answered too_fast and its handler ends; it ends before the download
\* and the post to the FaceSwap service, and the step that refuses it
\* leaves the user's row (requests_left, targets_left, receive_target_flag,
\* mode, last_photo_sent_timestamp) and the purchases as they were.
C14_RateLimitedFrame ==
    [][\A t \in Tasks :
        /\ (tasks[t].pc = "idle" /\ tasks'[t].pc # "idle" /\ InBurstWindow)
           => (tasks'[t].pc = "done" /\ tasks'[t].outcome \in RateLimited)
        /\ (/\ tasks[t].pc # "done"
            /\ tasks'[t].pc = "done"
            /\ tasks'[t].outcome \in RateLimited)
           => /\ tasks[t].pc \in {"idle", "checks"}
              /\ db_user' = db_user
              /\ premium_purchases' = premium_purchases
              /\ error_logs' = error_logs
              /\ ~tasks'[t].invoked
              /\ tasks'[t].sent = 0
      ]_vars

\* the second photo passed prevent_multisending and was refused by
\* check_time_limit: the stored timestamp is still that of the first
C14_Witness ==
    /\ tasks["t2"].outcome = "too_fast"
    /\ ~tasks["t2"].invoked
    /\ tasks["t2"].sent = 0
    /\ SENT_TIME = now
    /\ db_user.last_photo_sent_timestamp < now
    /\ db_user.requests_left > 0

\* C15 (as claimed): handlers one at a time.  A photo of a user who is not
\* premium, checked less than n_time after the stored timestamp, is
\* answered too_fast whatever requests_left is, and no_attempts is
\* answered only to photos that are outside the cooldown.
C15_GatesBeforeEntitlement ==
    [][\A t \in Tasks :
        (tasks[t].pc = "checks" /\ tasks'[t].pc # "checks")
        => /\ (db_user.status # "premium" /\ SinceLastPhoto < n_time)
              => tasks'[t].outcome = "too_fast"
           /\ tasks'[t].outcome = "no_attempts"
              => (db_user.status = "premium" \/ SinceLastPhoto >= n_time)
      ]_vars

\* C16: a photo checked while the user's requests_left is 0 is answered
\* no_attempts and its handler ends there: before the download and the
\* post to the FaceSwap service, with the user's row and the purchases
\* as they were.
C16_NoAttempts ==
    [][\A t \in Tasks :
        (/\ tasks[t].pc = "checks"
         /\ tasks'[t].pc # "checks"
         /\ db_user.requests_left = 0)
        => /\ tasks'[t].pc = "done"
           /\ tasks'[t].outcome = "no_attempts"
           /\ db_user' = db_user
           /\ premium_purchases' = premium_purchases
           /\ ~tasks'[t].invoked
           /\ tasks'[t].sent = 0
      ]_vars

C16_Witness ==
    \E t \in Tasks :
        /\ tasks[t].outcome = "no_attempts"
        /\ db_user.requests_left = 0
        /\ db_user = balance0
        /\ ~tasks[t].invoked

\* C17: handlers one at a time.  update_photo_timestamp stores the time
\* of the checks before the download starts; a download that fails ends
\* the handler with the answer failed, the row unchanged by that step
\* (requests_left, targets_left), the stored timestamp that of the
\* submission, and no post to the FaceSwap service.
C17_DownloadFailed ==
    [][\A t \in Tasks :
        /\ (tasks[t].pc # "download" /\ tasks'[t].pc = "download")
           => /\ tasks[t].pc = "stamp"
              /\ db_user'.last_photo_sent_timestamp = tasks[t].timestamp
              /\ tasks[t].timestamp = now
        /\ (tasks[t].pc = "download" /\ tasks'[t].outcome = "download_failed")
           => /\ tasks'[t].pc = "done"
              /\ db_user' = db_user
              /\ db_user'.requests_left = tasks[t].user.requests_left
              /\ db_user'.targets_left = tasks[t].user.targets_left
              /\ db_user'.last_photo_sent_timestamp = tasks[t].timestamp
              /\ ~tasks'[t].invoked
      ]_vars

C17_Witness ==
    \E t \in Tasks :
        /\ tasks[t].outcome = "download_failed"
        /\ ~tasks[t].invoked
        /\ db_user.requests_left = balance0.requests_left
        /\ db_user.targets_left = balance0.targets_left
        /\ db_user.last_photo_sent_timestamp = now
        /\ balance0.last_photo_sent_timestamp < now

\* C18: handlers one at a time.  When the post to the FaceSwap service
\* answers a status other than 200 or raises, the handler ends with the
\* answer failed, the step leaves requests_left and targets_left as they
\* were, and error_logs holds a row with the user's id and the path of
\* the photo.
C18_ServiceFailed ==
    [][\A t \in Tasks :
        (tasks[t].pc = "download" /\ tasks'[t].invoked /\ tasks'[t].pc = "done")
        => /\ tasks'[t].outcome = "failed"
           /\ db_user' = db_user
           /\ db_user'.requests_left = tasks[t].user.requests_left
           /\ db_user'.targets_left = tasks[t].user.targets_left
           /\ [user_id |-> user_id, details |-> input_path(t)] \in error_logs'
      ]_vars

C18_Witness ==
    \E t \in Tasks :
        /\ tasks[t].outcome = "failed"
        /\ tasks[t].invoked
        /\ tasks[t].sent = 0
        /\ error_logs = {[user_id |-> user_id, details |-> input_path(t)]}
        /\ db_user.requests_left = balance0.requests_left
        /\ db_user.requests_left > 0

\* C19 (as claimed): handlers one at a time, database calls may raise.
\* A submission one of whose database calls raised ended with the
\* exception leaving the handler, and no photo was sent to the user for it.
C19_FailClosed ==
    \A t \in Tasks :
        tasks[t].fault => (tasks[t].outcome = "raised" /\ tasks[t].sent = 0)

\* the PremiumPurchase rows that are active today, and the sum of one of
\* their columns
ActivePurchases ==
    {i \in 1..Len(premium_purchases) :
        premium_purchases[i].expiration_date >= today}
RECURSIVE GrantSum(_, _)
GrantSum(I, column) ==
    IF I = {} THEN 0
    ELSE LET i == CHOOSE j \in I : TRUE
         IN  premium_purchases[i][column] + GrantSum(I \ {i}, column)

\* C20: a run of update_user_quotas on a user with at least one purchase
\* that has not expired sets requests_left to the sum of request_increment
\* and targets_left to the sum of targets_increment over those purchases,
\* whatever the balances were.
C20_QuotasFromActivePurchases ==
    [][(commands' # commands /\ ActivePurchases # {})
        => /\ db_user'.requests_left =
                  GrantSum(ActivePurchases, "request_increment")
           /\ db_user'.targets_left =
                  GrantSum(ActivePurchases, "targets_increment")
      ]_vars

\* purchases granting (MaxGrant, 0) and (1, 1), both active, a user who
\* had MaxBalance of each: after the run MaxGrant + 1 and 1
C20_Witness ==
    /\ commands = 1
    /\ balance0.requests_left = MaxBalance
    /\ balance0.targets_left = MaxBalance
    /\ premium_purchases =
          <<[expiration_date |-> today, targets_increment |-> 0,
             request_increment |-> MaxGrant],
            [expiration_date |-> today, targets_increment |-> 1,
             request_increment |-> 1]>>
    /\ db_user.requests_left = MaxGrant + 1
    /\ db_user.targets_left = 1

\* a step of the scheduled job update_user_quotas
ReconcileStep == job_runs' = job_runs + 1

\* C23: after a run of update_user_quotas a user with no active purchase
\* is on tier free with premium_expiration null, requests_left at the free
\* baseline and targets_left at 0.
C23_FreeBaselineAfterRun ==
    [][(ReconcileStep /\ premium_purchases' = <<>>)
        => /\ db_user'.status = "free"
           /\ db_user'.premium_expiration = NoValue
           /\ db_user'.requests_left = FREE_REQUESTS
           /\ db_user'.targets_left = 0
      ]_vars

\* C27: reset_images_left leaves the user on tier free with
\* premium_expiration null, no purchase rows, requests_left at the free
\* baseline and targets_left at 0, whatever the row and the purchases were.
C27_ResetToFree ==
    [][ResetImagesLeft
        => /\ db_user'.status = "free"
           /\ db_user'.premium_expiration = NoValue
           /\ premium_purchases' = <<>>
           /\ db_user'.requests_left = FREE_REQUESTS
           /\ db_user'.targets_left = 0
      ]_vars

\* a premium user with an active purchase and a target credit, reset on
\* the day of the purchase: only the reset removes that purchase
C27_Witness ==
    /\ commands = 1
    /\ today = 0
    /\ balance0.status = "premium"
    /\ balance0.targets_left > 0
    /\ premium_purchases = <<>>
    /\ db_user.status = "free"
    /\ db_user.premium_expiration = NoValue
    /\ db_user.requests_left = FREE_REQUESTS
    /\ db_user.targets_left = 0

\* C29: handlers one at a time.  When receive_target_flag is not set, the
\* step that follows a successful download leaves targets_left and mode
\* as they are and posts the photo to the FaceSwap service.
C29_NoFlagNoTarget ==
    [][\A t \in Tasks :
        (/\ tasks[t].pc = "download"
         /\ tasks'[t].pc # "download"
         /\ tasks'[t].outcome # "download_failed"
         /\ db_user.receive_target_flag = 0)
        => /\ db_user'.targets_left = db_user.targets_left
           /\ db_user'.mode = db_user.mode
           /\ tasks'[t].pc \notin TargetBranch
           /\ tasks'[t].invoked
      ]_vars

\* a premium user with a target credit and no pending /target sends a
\* photo: it is processed, and the credit and the mode are untouched
C29_Witness ==
    \E t \in Tasks :
        /\ tasks[t].outcome = "attempts_left"
        /\ tasks[t].invoked
        /\ commands = 0
        /\ target_requests = 0
        /\ balance0.status = "premium"
        /\ balance0.receive_target_flag = 0
        /\ balance0.targets_left > 0
        /\ db_user.targets_left = balance0.targets_left
        /\ db_user.mode = balance0.mode

\* C21 (as claimed): a run of update_user_quotas started before
\* HOUR_INTERVAL has passed since the last logged run leaves the user's
\* row and the purchase rows as they were.
C21_NoOpInsideInterval ==
    [][(/\ ReconcileStep
        /\ scheduler_log # NoValue
        /\ now - scheduler_log < HOUR_INTERVAL)
        => /\ db_user' = db_user
           /\ premium_purchases' = premium_purchases
      ]_vars

\* C22 (as claimed): after a run of update_user_quotas the user's status
\* is premium exactly when a purchase of the user has not expired.
C22_PremiumIffActive ==
    [][ReconcileStep
        => ((db_user'.status = "premium") <=> (ActivePurchases' # {}))
      ]_vars

\* requests_left after a run of the job with the purchases of the moment
AfterRun(purchases) ==
    IF purchases # <<>>
    THEN SumSeq(purchases, "request_increment")
    ELSE FREE_REQUESTS

\* C25 (as claimed): one run of update_user_quotas and one
\* decrement_requests_left on the same user, with nothing else: the final
\* requests_left is that of the run followed by the decrement or of the
\* decrement followed by the run.
C25_SerialOutcome ==
    (/\ job_runs = 1
     /\ calls["p1"].pc = "returned"
     /\ calls["p2"].pc = "ready"
     /\ commands = 0)
    => \/ db_user.requests_left =
            decrement_requests_left(
                [db_user EXCEPT !.requests_left = AfterRun(premium_purchases)],
                calls["p1"].n).requests_left
       \/ db_user.requests_left = AfterRun(premium_purchases)

\* C28 (as claimed): when a submission ends on the processing branch, the
\* balance reported to the user is the requests_left stored by the
\* submission's decrement, whatever else was done to the user after the
\* checks of the submission.
C28_ReportedIsPersisted ==
    [][\A t \in Tasks :
        (tasks[t].pc = "dec_commit" /\ tasks'[t].pc = "done")
        => tasks'[t].reported = db_user'.requests_left
      ]_vars

\* C26: buy_premium for an existing user adds one PremiumPurchase row
\* after the rows the user has, which stay as they are, adds
\* PREMIUM_REQUESTS to requests_left and PREMIUM_TARGETS to targets_left,
\* and sets status premium and premium_expiration to the expiration date
\* of the new row.
C26_PurchaseStacks ==
    [][SetUserToPremium
        => LET k == Len(premium_purchases) IN
           /\ Len(premium_purchases') = k + 1
           /\ SubSeq(premium_purchases', 1, k) = premium_purchases
           /\ db_user'.requests_left = db_user.requests_left + PREMIUM_REQUESTS
           /\ db_user'.targets_left = db_user.targets_left + PREMIUM_TARGETS
           /\ db_user'.status = "premium"
           /\ db_user'.premium_expiration =
                  premium_purchases'[k + 1].expiration_date
      ]_vars

\* a premium user who has a purchase of day 0 pays again on day 1: both
\* rows are there and the balances are those of before plus the premium
\* amounts
C26_Witness ==
    /\ today = 1
    /\ Len(premium_purchases) = 2
    /\ premium_purchases[1].expiration_date = 0
    /\ premium_purchases[2].expiration_date = today + PREMIUM_DAYS
    /\ \A t \in Tasks : tasks[t].pc = "idle"
    /\ db_user.status = "premium"
    /\ db_user.premium_expiration = today + PREMIUM_DAYS
    /\ db_user.requests_left = balance0.requests_left + PREMIUM_REQUESTS
    /\ db_user.targets_left = balance0.targets_left + PREMIUM_TARGETS

\* C24: handlers one at a time.  No step of a photo submission or of the
\* /target command changes the PremiumPurchase rows; a payment adds a row
\* after the rows that are there; rows are removed by update_user_quotas,
\* which removes exactly the expired ones, and by the reset, which removes
\* all; after a run of update_user_quotas no expired row is left.
C24_PurchasesAppendOnly ==
    [][LET k == Len(premium_purchases)
           appended == /\ Len(premium_purchases') = k + 1
                       /\ SubSeq(premium_purchases', 1, k) = premium_purchases
           purged == /\ ReconcileStep
                     /\ Len(premium_purchases') = Cardinality(ActivePurchases)
                     /\ \A i \in ActivePurchases :
                          \E j \in 1..Len(premium_purchases') :
                            premium_purchases'[j] = premium_purchases[i]
           reset == ResetImagesLeft /\ premium_purchases' = <<>>
       IN  /\ (tasks' # tasks \/ cmd' # cmd)
              => premium_purchases' = premium_purchases
           /\ SetUserToPremium => appended
           /\ premium_purchases' # premium_purchases
              => (appended \/ purged \/ reset)
           /\ ReconcileStep
              => \A j \in 1..Len(premium_purchases') :
                   premium_purchases'[j].expiration_date >= today'
      ]_vars

\* a premium user whose purchase of day 0 outlived the processing of a
\* photo and was removed by the run of day 1
C24_Witness ==
    /\ today = 1
    /\ job_runs = 1
    /\ commands = 1
    /\ balance0.status = "premium"
    /\ \E t \in Tasks : tasks[t].outcome = "attempts_left"
    /\ premium_purchases = <<>>

\* C30 (as claimed): when insert_user(id, username, first_name, last_name)
\* returns, the users table has exactly one row of that id and it carries
\* the three names that were passed.
C30_UpsertCarriesNames ==
    [][\A p \in Procs :
        (inserts[p].pc = "selected" /\ inserts'[p].pc = "returned")
        => LET c == inserts[p] IN
           /\ Cardinality(fetch_user_data(c.user_id)') = 1
           /\ \A i \in fetch_user_data(c.user_id)' :
                /\ users'[i].username = c.username
                /\ users'[i].first_name = c.first_name
                /\ users'[i].last_name = c.last_name
      ]_vars

\* C31 (as claimed): a photo rejected by the cooldown test is answered
\* with the time still to wait, n_time - (now - last_photo_sent_timestamp).
C31_ReportsRemainingWait ==
    [][\A t \in Tasks :
        (tasks[t].pc = "checks" /\ tasks'[t].outcome = "too_fast")
        => tasks'[t].reported = n_time - (now - db_user.last_photo_sent_timestamp)
      ]_vars

\* C32 (as claimed): on the processing branch no step before the last
\* photo is sent changes requests_left on behalf of the submission, a
\* submission that ends after sending photos has called
\* decrement_requests_left once, after the last of them, and the amount of
\* that call is the number of photos sent.
C32_DecrementAfterDelivery ==
    [][\A t \in Tasks :
        /\ (tasks[t].pc = "send" /\ tasks'[t] # tasks[t])
           => db_user'.requests_left = db_user.requests_left
        /\ (tasks[t].pc = "dec_commit" /\ tasks'[t].pc = "done")
           => tasks[t].paths = tasks[t].sent
        /\ (tasks[t].pc # "done" /\ tasks'[t].pc = "done" /\ tasks'[t].sent > 0)
           => (tasks[t].pc = "dec_commit" /\ tasks'[t].outcome = "attempts_left")
      ]_vars

\* C33: a run of update_user_quotas that follows another run on the same
\* day, with nothing in between, leaves the user's row (status, balances,
\* premium_expiration) and the purchase rows as the first run left them.
C33_RunTwiceSame ==
    [][(ReconcileStep /\ job_runs >= 1)
        => /\ db_user' = db_user
           /\ premium_purchases' = premium_purchases
      ]_vars

\* two runs on day 1 over an expired and an active purchase: the first
\* run changed the balances and removed a row, the second changed nothing
C33_Witness ==
    /\ job_runs = 2
    /\ today = 1
    /\ Len(premium_purchases) = 1
    /\ balance0.requests_left = MaxBalance
    /\ db_user.requests_left = premium_purchases[1].request_increment
    /\ db_user.requests_left # balance0.requests_left

\* C34 (as claimed): the PremiumPurchase row added by buy_premium carries
\* in request_increment what the payment added to requests_left and in
\* targets_increment what it added to targets_left; and for a user who
\* paid once from balances of zero, with nothing else done, the run of
\* update_user_quotas leaves the balances the payment gave.
C34_GrantEqualsTopUp ==
    [][/\ SetUserToPremium
          => LET row == premium_purchases'[Len(premium_purchases')] IN
             /\ row.request_increment =
                    db_user'.requests_left - db_user.requests_left
             /\ row.targets_increment =
                    db_user'.targets_left - db_user.targets_left
       /\ (/\ ReconcileStep
           /\ balance0.status = "free"
           /\ balance0.requests_left = 0
           /\ balance0.targets_left = 0
           /\ commands = 1
           /\ Len(premium_purchases) = 1
           /\ \A p \in Procs : calls[p].pc = "ready")
          => /\ db_user'.requests_left = db_user.requests_left
             /\ db_user'.targets_left = db_user.targets_left
      ]_vars

\* C35 (as claimed): the commit of a decrement of requests_left, also on a
\* balance of 0, leaves status, targets_left, receive_target_flag, mode,
\* premium_expiration and the purchase rows as they are, and the commit of
\* a decrement of targets_left leaves status, requests_left and the same
\* other columns as they are.
C35_DecrementFrame ==
    [][\A p \in Procs :
        (calls[p].pc = "loaded" /\ calls'[p].pc = "returned")
        => /\ db_user'.status = db_user.status
           /\ db_user'.receive_target_flag = db_user.receive_target_flag
           /\ db_user'.mode = db_user.mode
           /\ db_user'.premium_expiration = db_user.premium_expiration
           /\ premium_purchases' = premium_purchases
           /\ calls[p].fn = "targets"
              => db_user'.requests_left = db_user.requests_left
           /\ calls[p].fn # "targets"
              => db_user'.targets_left = db_user.targets_left
      ]_vars

\* C36: handlers one at a time.  The selection of a preset target stores
\* the chosen value as mode and clears receive_target_flag, with
\* targets_left and requests_left as they were; a photo downloaded while
\* the selected preset is the mode and the flag is still as the selection
\* left it (no /target since) is posted to the FaceSwap service and does
\* not enter the target branch.
C36_PresetSelection ==
    [][/\ ProcessImageSelection
          => /\ db_user'.mode \in PresetModes
             /\ db_user'.receive_target_flag = 0
             /\ db_user'.targets_left = db_user.targets_left
             /\ db_user'.requests_left = db_user.requests_left
       /\ \A t \in Tasks :
            (/\ tasks[t].pc = "download"
             /\ tasks'[t].pc # "download"
             /\ tasks'[t].outcome # "download_failed"
             /\ db_user.mode \in PresetModes \ {DEFAULT_MODE}
             /\ db_user.receive_target_flag = 0)
            => (tasks'[t].pc \notin TargetBranch /\ tasks'[t].invoked)
      ]_vars

\* a premium user with a pending /target and a target credit selects a
\* preset and then sends a photo: the photo is processed, the flag is
\* cleared and the credit is still there
C36_Witness ==
    /\ balance0.status = "premium"
    /\ balance0.receive_target_flag = 1
    /\ balance0.targets_left > 0
    /\ commands = 1
    /\ db_user.mode \in PresetModes \ {DEFAULT_MODE}
    /\ db_user.receive_target_flag = 0
    /\ db_user.targets_left = balance0.targets_left
    /\ \E t \in Tasks : tasks[t].outcome = "attempts_left" /\ tasks[t].invoked

\* the photo of task t has passed prevent_multisending
PassedGate(t) ==
    tasks[t].arrived # NoValue /\ tasks[t].outcome # "too_fast_multisending"

\* C37: under every interleaving of the handlers, two photos of the user
\* that both passed prevent_multisending reached it at least
\* DELAY_BETWEEN_IMAGES apart: of two photos inside one window at most
\* one is accepted.
C37_OneAcceptedPerWindow ==
    \A t, u \in Tasks :
        (t # u /\ PassedGate(t) /\ PassedGate(u))
        => \/ tasks[t].arrived - tasks[u].arrived >= DELAY_BETWEEN_IMAGES
           \/ tasks[u].arrived - tasks[t].arrived >= DELAY_BETWEEN_IMAGES

\* the second photo reached the gate at the same clock reading as the
\* first, whose handler is still before its first database call, and was
\* rejected although it is no part of a media group
C37_Witness ==
    /\ tasks["t1"].pc = "checks"
    /\ PassedGate("t1")
    /\ tasks["t2"].arrived = tasks["t1"].arrived
    /\ tasks["t2"].outcome = "too_fast_multisending"
    /\ tasks["t2"].media_group_id = None

\* C38: a photo that carries a media_group_id, the first part of a group
\* and the first photo of the user included, is answered too_fast by the
\* gate; its arrival leaves SENT_TIME, the user's row and the purchase
\* rows as they are, and it never reaches the checks of
\* image_handler_checks, the download or the service.
C38_MediaGroupRejected ==
    [][\A t \in Tasks :
        /\ (tasks[t].pc = "idle" /\ tasks'[t].media_group_id # None)
           => /\ tasks'[t].pc = "done"
              /\ tasks'[t].outcome = "too_fast_multisending"
              /\ SENT_TIME' = SENT_TIME
              /\ db_user' = db_user
              /\ premium_purchases' = premium_purchases
        /\ tasks'[t].media_group_id # None
           => /\ tasks'[t].pc = "done"
              /\ tasks'[t].accepted = NoValue
              /\ ~tasks'[t].invoked
              /\ tasks'[t].sent = 0
      ]_vars

\* the first photo the user ever sent is part of a media group: rejected,
\* and SENT_TIME has still no entry for the user
C38_Witness ==
    /\ tasks["t1"].media_group_id # None
    /\ tasks["t1"].outcome = "too_fast_multisending"
    /\ tasks["t2"].pc = "idle"
    /\ SENT_TIME = NoValue
    /\ db_user = balance0

\* C39 (as claimed): for a user who is free throughout, two photos that
\* both passed image_handler_checks passed them at least n_time apart,
\* under every interleaving of the handlers.
C39_CooldownSpacing ==
    (balance0.status = "free" /\ db_user.status = "free" /\ commands = 0)
    => \A t, u \in Tasks :
         (t # u /\ tasks[t].accepted # NoValue /\ tasks[u].accepted # NoValue)
         => \/ tasks[t].accepted - tasks[u].accepted >= n_time
            \/ tasks[u].accepted - tasks[t].accepted >= n_time

====
